---- MODULE Spec2Model ----
(***************************************************************************)
(* VoronoiGraph.__init__ of landlab/graph/voronoi/voronoi.py as a state    *)
(* machine: the triangulation handed over by scipy's Delaunay, the         *)
(* optional pruning of patches whose node indices are spread too far       *)
(* (PatchFilter: lines 63-69), the sizing and allocation of the link       *)
(* tables (lines 71-76) and the pass that numbers the links                *)
(* (LinkIndexer: line 78).  remove_tris and _setup_links_at_patch live in  *)
(* the extension module .ext.delaunay; their bodies follow the written     *)
(* specification (sections 4.1 and 4.2).                                   *)
(*                                                                         *)
(* Tables are functions over 0-based row indices, rows are functions over  *)
(* the slots 0..2 (patches) or 0..1 (links), as in the numpy arrays.       *)
(***************************************************************************)
EXTENDS Integers, FiniteSets, Sequences, TLC

\* ---------------------------------------------------------------- bounds
\* Node indices are 0..MaxNode.
MaxNode == 3
\* The triangulation has 1..MaxPatches triangles.
MaxPatches == 3
\* Malformed adjacency tables are tried on 1..MaxRawPatches triangles.
MaxRawPatches == 2

\* ------------------------------------------------------------- constants
\* "no neighbor" in delaunay.neighbors (tested as `> -1`).
NoNeighbor == -1
\* Content of a cell of np.empty that nothing has written yet.
Uninit == -2

Nodes == 0..MaxNode
Slots == 0..2

\* max_node_spacing: None, or a number.
None == <<>>
Some(n) == <<n>>
Thresholds == {None} \cup {Some(n) : n \in -1..MaxNode}

\* ------------------------------------------------------- table helpers
NRows(table) == Cardinality(DOMAIN table)
Rows(n) == 0..(n - 1)

Max(S) == CHOOSE x \in S : \A y \in S : y <= x
Min(S) == CHOOSE x \in S : \A y \in S : x <= y

NodeSet(tri) == {tri[k] : k \in Slots}
\* The edge opposite vertex k: the other two vertices.
Edge(tri, k) == {tri[(k + 1) % 3], tri[(k + 2) % 3]}

\* ------------------------------------------- the triangulation (scipy)
Triangles == {t \in [Slots -> Nodes] : Cardinality(NodeSet(t)) = 3}

AllEdges == {e \in SUBSET Nodes : Cardinality(e) = 2}

\* What Delaunay can hand over as .simplices: distinct triangles, and no
\* edge on more than two of them.
IsTriangulation(T) ==
    /\ \A i, j \in DOMAIN T : i # j => NodeSet(T[i]) # NodeSet(T[j])
    /\ \A e \in AllEdges :
          Cardinality({i \in DOMAIN T : e \subseteq NodeSet(T[i])}) <= 2

SimplicesOfSize(P) == {T \in [Rows(P) -> Triangles] : IsTriangulation(T)}

ValidSimplices == UNION {SimplicesOfSize(P) : P \in 1..MaxPatches}

\* Delaunay.neighbors: the k-th neighbor is opposite the k-th vertex, -1
\* where there is none.
NeighborsOf(T) ==
    [i \in DOMAIN T |->
        [k \in Slots |->
            LET across == {j \in DOMAIN T : j # i /\ Edge(T[i], k) \subseteq NodeSet(T[j])}
            IN  IF across = {} THEN NoNeighbor ELSE Min(across)]]

VARIABLES
    simplices,            \* delaunay.simplices
    neighbors,            \* delaunay.neighbors
    max_node_spacing,     \* the keyword argument
    pc,                   \* "filter", "alloc", "index", "done", "error"
    nodes_at_patch,
    neighbors_at_patch,
    bad_patches,          \* indices of the patches found too wide (ascending)
    n_patches,
    n_links,
    links_at_patch,
    nodes_at_link,
    link,                 \* next unused link id of _setup_links_at_patch
    patch,                \* next patch _setup_links_at_patch visits
    err                   \* "none" or the kind of the error raised

vars == <<simplices, neighbors, max_node_spacing, pc, nodes_at_patch,
          neighbors_at_patch, bad_patches, n_patches, n_links,
          links_at_patch, nodes_at_link, link, patch, err>>

\* ---------------------------------------------------------- PatchFilter
\* Variant: last entry minus first entry instead of max minus min.
PtpLastFirst(tri) == tri[2] - tri[0]

\* np.ptp(row): max - min of the three node indices.
Ptp(tri) == Max(NodeSet(tri)) - Min(NodeSet(tri))

\* np.where(max_node_dist > max_node_spacing)[0]
BadPatches(T, spacing) == {i \in DOMAIN T : Ptp(T[i]) > spacing}

\* remove_tris, step 1: every slot of a neighbor of a violating patch that
\* points at the violating patch becomes the sentinel.
Unlink(nbrs, bad) ==
    [i \in DOMAIN nbrs |->
        [k \in Slots |->
            IF \E b \in bad : /\ nbrs[i][k] = b
                              /\ \E m \in Slots : nbrs[b][m] = i
            THEN NoNeighbor ELSE nbrs[i][k]]]

\* The old index of the row that compaction puts at position new.
NthSurvivor(P, bad, new) ==
    LET alive == Rows(P) \ bad
    IN  Min({i \in alive : Cardinality({j \in alive : j < i}) = new})

\* old -> new index translation of the surviving rows.
NewIndex(bad, old) == old - Cardinality({b \in bad : b < old})

\* remove_tris, steps 2 and 3, in place: the surviving rows move to the
\* front in their order, their non-sentinel entries go through the
\* translation; the rows behind them keep what they held.
Compact(table, bad, remap) ==
    LET P == NRows(table)
        kept == P - Cardinality(bad)
    IN  [i \in DOMAIN table |->
            IF i < kept
            THEN LET row == table[NthSurvivor(P, bad, i)]
                 IN  [k \in Slots |->
                        IF remap /\ row[k] # NoNeighbor /\ row[k] \notin bad
                        THEN NewIndex(bad, row[k]) ELSE row[k]]
            ELSE table[i]]

remove_tris(nodes, nbrs, bad) ==
    [nodes |-> Compact(nodes, bad, FALSE),
     nbrs  |-> Compact(Unlink(nbrs, bad), bad, TRUE)]

\* Variant: the slice drops the leading rows, [len(bad_patches):, :].
TruncNodesFront(table, nbad) ==
    [i \in Rows(NRows(table) - nbad) |-> table[i + nbad]]

\* nodes_at_patch[:-len(bad_patches), :]
TruncNodes(table, nbad) == [i \in Rows(NRows(table) - nbad) |-> table[i]]

\* Variant: the adjacency table is not cut.
TruncNeighborsNone(table, nbad) == table

\* neighbors_at_patch[:-len(bad_patches), :]
TruncNeighbors(table, nbad) == [i \in Rows(NRows(table) - nbad) |-> table[i]]

PatchFilter ==
    /\ pc = "filter"
    /\ IF max_node_spacing # None
       THEN LET bad == BadPatches(simplices, max_node_spacing[1])
            IN  /\ bad_patches' = bad
                /\ IF Cardinality(bad) > 0
                   THEN LET r == remove_tris(nodes_at_patch, neighbors_at_patch, bad)
                        IN  /\ nodes_at_patch' = TruncNodes(r.nodes, Cardinality(bad))
                            /\ neighbors_at_patch' = TruncNeighbors(r.nbrs, Cardinality(bad))
                   ELSE UNCHANGED <<nodes_at_patch, neighbors_at_patch>>
       ELSE UNCHANGED <<bad_patches, nodes_at_patch, neighbors_at_patch>>
    /\ pc' = "alloc"
    /\ UNCHANGED <<simplices, neighbors, max_node_spacing, n_patches, n_links,
                   links_at_patch, nodes_at_link, link, patch, err>>

\* ------------------------------------------------------------ allocation
\* np.count_nonzero(neighbors_at_patch > -1)
CountShared(nbrs) ==
    Cardinality({ik \in (DOMAIN nbrs) \X Slots : nbrs[ik[1]][ik[2]] > NoNeighbor})

\* Variant: the shared entries are not halved.
NLinksNoHalf(np, shared) == 3 * np - shared

\* n_links = 3 * n_patches - n_shared_links // 2
NLinks(np, shared) == 3 * np - (shared \div 2)

\* np.empty((rows, cols), dtype=int)
Empty(rows, cols) == [i \in Rows(rows) |-> [k \in Rows(cols) |-> Uninit]]

Alloc ==
    /\ pc = "alloc"
    /\ n_patches' = NRows(nodes_at_patch)
    /\ n_links' = NLinks(NRows(nodes_at_patch), CountShared(neighbors_at_patch))
    /\ links_at_patch' = Empty(NRows(nodes_at_patch), 3)
    /\ nodes_at_link' = Empty(n_links', 2)
    /\ link' = 0
    /\ patch' = 0
    /\ pc' = "index"
    /\ UNCHANGED <<simplices, neighbors, max_node_spacing, nodes_at_patch,
                   neighbors_at_patch, bad_patches, err>>

\* ----------------------------------------------------------- LinkIndexer
\* One edge of one patch.  st = [link, lap, nal]: the counter and the two
\* output tables so far.
SlotStep(st, p, k) ==
    LET nb == neighbors_at_patch[p][k]
    IN  IF nb # NoNeighbor /\ nb < p
        THEN \* already numbered by the neighbor: look it up there
             LET back == {m \in Slots : neighbors_at_patch[nb][m] = p}
             IN  IF back = {} THEN st
                 ELSE [st EXCEPT !.lap[p][k] = st.lap[nb][Min(back)]]
        ELSE \* first visit: the next unused id
             [link |-> st.link + 1,
              lap  |-> [st.lap EXCEPT ![p][k] = st.link],
              nal  |-> IF st.link \in DOMAIN st.nal
                       THEN [st.nal EXCEPT ![st.link] =
                                [c \in 0..1 |-> nodes_at_patch[p][(k + 1 + c) % 3]]]
                       ELSE st.nal]

IndexPatch ==
    /\ pc = "index"
    /\ patch < n_patches
    /\ LET s0 == [link |-> link, lap |-> links_at_patch, nal |-> nodes_at_link]
           s3 == SlotStep(SlotStep(SlotStep(s0, patch, 0), patch, 1), patch, 2)
       IN  /\ link' = s3.link
           /\ links_at_patch' = s3.lap
           /\ nodes_at_link' = s3.nal
    /\ patch' = patch + 1
    /\ UNCHANGED <<simplices, neighbors, max_node_spacing, pc, nodes_at_patch,
                   neighbors_at_patch, bad_patches, n_patches, n_links, err>>

\* The pass is over: the count of links assigned must be the count the
\* tables were sized for.
CountsAgree(assigned, sized) == assigned = sized

Finish ==
    /\ pc = "index"
    /\ patch = n_patches
    /\ IF CountsAgree(link, n_links)
       THEN pc' = "done" /\ err' = err
       ELSE pc' = "error" /\ err' = "InconsistentAdjacencyError"
    /\ UNCHANGED <<simplices, neighbors, max_node_spacing, nodes_at_patch,
                   neighbors_at_patch, bad_patches, n_patches, n_links,
                   links_at_patch, nodes_at_link, link, patch>>

\* ------------------------------------------------------- specifications
InitCommon ==
    /\ pc = "filter"
    /\ nodes_at_patch = simplices
    /\ neighbors_at_patch = neighbors
    /\ bad_patches = {}
    /\ n_patches = 0
    /\ n_links = 0
    /\ links_at_patch = Empty(0, 3)
    /\ nodes_at_link = Empty(0, 2)
    /\ link = 0
    /\ patch = 0
    /\ err = "none"

\* The program: any triangulation, any spacing limit.
Init ==
    /\ simplices \in ValidSimplices
    /\ neighbors = NeighborsOf(simplices)
    /\ max_node_spacing \in Thresholds
    /\ InitCommon

Next == PatchFilter \/ Alloc \/ IndexPatch \/ Finish

Spec == Init /\ [][Next]_vars

\* LinkIndexer as a function of its arguments: any adjacency table, also a
\* malformed one, over a few triangles; no spacing limit.
Ascending(tri) == tri[0] < tri[1] /\ tri[1] < tri[2]

RawSimplices ==
    {T \in UNION {SimplicesOfSize(P) : P \in 1..MaxRawPatches} :
        \A i \in DOMAIN T : Ascending(T[i])}

InitRaw ==
    /\ simplices \in RawSimplices
    /\ neighbors \in [DOMAIN simplices ->
                        [Slots -> {NoNeighbor} \cup DOMAIN simplices]]
    /\ max_node_spacing = None
    /\ InitCommon

SpecRaw == InitRaw /\ [][Next]_vars

\* ============================================================ properties
Written(table) == \A i \in DOMAIN table : \A c \in DOMAIN table[i] : table[i][c] # Uninit

LinkPair(l) == {nodes_at_link[l][0], nodes_at_link[l][1]}

LinkIds(i) == {links_at_patch[i][k] : k \in Slots}

\* The count the link table must have: 3 P - shared / 2.
ExpectedLinks == 3 * NRows(nodes_at_patch) - (CountShared(neighbors_at_patch) \div 2)

Symmetric(nbrs) ==
    \A i \in DOMAIN nbrs : \A k \in Slots :
        nbrs[i][k] # NoNeighbor =>
            /\ nbrs[i][k] \in DOMAIN nbrs
            /\ \E m \in Slots : nbrs[nbrs[i][k]][m] = i

\* The input row a surviving row came from, and where an input row went.
Survivors == DOMAIN simplices \ bad_patches
OldOf(new) == CHOOSE o \in Survivors : Cardinality({s \in Survivors : s < o}) = new
NewOf(old) == Cardinality({s \in Survivors : s < old})

\* C1: on a triangulation (symmetric adjacency) the pass assigns exactly
\* 3 P - shared / 2 links, the size the link table was allocated with: it
\* never fails, never runs past the end of the table and leaves no row
\* unwritten.
C1_LinkCountExact ==
    /\ pc # "error"
    /\ pc = "index" => link <= NRows(nodes_at_link)
    /\ pc = "done" =>
          /\ link = ExpectedLinks
          /\ NRows(nodes_at_link) = ExpectedLinks
          /\ Written(nodes_at_link)

C1_Witness ==
    /\ pc = "done"
    /\ n_patches = 3
    /\ CountShared(neighbors_at_patch) = 6
    /\ link = 6

\* C2: two patches that are neighbors hold a common link id, and the
\* endpoints of that link are the two vertices the patches share, whether
\* the lower or the higher patch is looked at.
C2_SharedLink ==
    pc = "done" =>
        \A i \in DOMAIN neighbors_at_patch : \A k \in Slots :
            LET j == neighbors_at_patch[i][k]
            IN  j # NoNeighbor =>
                    \E l \in LinkIds(i) \cap LinkIds(j) :
                        /\ l \in DOMAIN nodes_at_link
                        /\ LinkPair(l) = NodeSet(nodes_at_patch[i]) \cap NodeSet(nodes_at_patch[j])

C2_Witness ==
    /\ pc = "done"
    /\ bad_patches # {}
    /\ \E i \in DOMAIN neighbors_at_patch : \E k \in Slots :
          /\ neighbors_at_patch[i][k] # NoNeighbor
          /\ neighbors_at_patch[i][k] < i
          /\ links_at_patch[i][k] \in LinkIds(neighbors_at_patch[i][k])

\* C3: no two rows of the link table hold the same unordered node pair, and
\* every edge of every patch is exactly one row.
C3_NoDuplicateLinks ==
    pc = "done" =>
        /\ \A a, b \in DOMAIN nodes_at_link : a # b => LinkPair(a) # LinkPair(b)
        /\ \A i \in DOMAIN nodes_at_patch : \A k \in Slots :
              Cardinality({l \in DOMAIN nodes_at_link :
                              LinkPair(l) = Edge(nodes_at_patch[i], k)}) = 1

C3_Witness ==
    /\ pc = "done"
    /\ n_patches = 3
    /\ NRows(nodes_at_link) = 6
    /\ \E a, b \in DOMAIN nodes_at_link : a # b /\ LinkPair(a) \cap LinkPair(b) # {}

\* C4: after the filter the adjacency table has P - |violations| rows and
\* each entry is the sentinel or an index of one of these rows.
C4_NoDanglingNeighbor ==
    pc # "filter" =>
        LET kept == NRows(simplices) - Cardinality(bad_patches)
        IN  /\ DOMAIN neighbors_at_patch = Rows(kept)
            /\ \A i \in DOMAIN neighbors_at_patch : \A k \in Slots :
                  \/ neighbors_at_patch[i][k] = NoNeighbor
                  \/ neighbors_at_patch[i][k] \in Rows(kept)

C4_Witness ==
    /\ pc = "alloc"
    /\ bad_patches = {0}
    /\ NRows(neighbors_at_patch) = 2
    /\ \E k \in Slots : neighbors_at_patch[1][k] = 0
    /\ \E k \in Slots : neighbors[2][k] = 0

\* C5: after the filter the adjacency table, one row per surviving patch, is
\* symmetric: where the input neighbor was removed (or absent) the slot
\* holds the sentinel, and a surviving neighbor is listed under its new
\* index.
C5_SymmetricAfterFilter ==
    pc # "filter" =>
        /\ DOMAIN neighbors_at_patch = Rows(Cardinality(Survivors))
        /\ Symmetric(neighbors_at_patch)
        /\ \A i \in DOMAIN neighbors_at_patch : \A k \in Slots :
              LET was == neighbors[OldOf(i)][k]
              IN  neighbors_at_patch[i][k] =
                     IF was = NoNeighbor \/ was \in bad_patches
                     THEN NoNeighbor ELSE NewOf(was)

C5_Witness ==
    /\ pc = "alloc"
    /\ bad_patches = {1}
    /\ \E k \in Slots : neighbors_at_patch[0][k] = 1
    /\ \E k \in Slots : neighbors_at_patch[1][k] = 0
    /\ \E k \in Slots : neighbors[0][k] = 1 /\ neighbors_at_patch[0][k] = NoNeighbor

\* C6: the filter keeps exactly the input rows that are not violations, in
\* their order; without violations both tables are the input tables.
C6_SurvivorsInOrder ==
    pc # "filter" =>
        /\ DOMAIN nodes_at_patch = Rows(NRows(simplices) - Cardinality(bad_patches))
        /\ \A i \in DOMAIN nodes_at_patch : nodes_at_patch[i] = simplices[OldOf(i)]
        /\ bad_patches = {} =>
              /\ nodes_at_patch = simplices
              /\ neighbors_at_patch = neighbors

C6_Witness ==
    /\ pc = "alloc"
    /\ bad_patches = {0, 2}
    /\ NRows(nodes_at_patch) = 1
    /\ nodes_at_patch[0] = simplices[1]

\* C7: a negative threshold raises a configuration error and leaves both
\* tables as they were.
C7_NegativeThresholdFails ==
    (max_node_spacing # None /\ max_node_spacing[1] < 0 /\ pc # "filter") =>
        /\ err = "ConfigurationError"
        /\ nodes_at_patch = simplices
        /\ neighbors_at_patch = neighbors

C9_ThresholdZeroEmpties ==
    max_node_spacing = Some(0) =>
        /\ pc # "error" /\ err = "none"
        /\ pc # "filter" =>
              /\ bad_patches = DOMAIN simplices
              /\ NRows(nodes_at_patch) = 0
              /\ NRows(neighbors_at_patch) = 0
        /\ pc = "done" =>
              /\ link = 0
              /\ NRows(nodes_at_link) = 0
              /\ NRows(links_at_patch) = 0

C9_Witness ==
    /\ max_node_spacing = Some(0)
    /\ pc = "done"
    /\ NRows(simplices) = 3
    /\ NRows(links_at_patch) = 0

\* An edge is first visited from the patch that has no lower neighbor there.
FirstVisit(i, k) ==
    neighbors_at_patch[i][k] = NoNeighbor \/ neighbors_at_patch[i][k] > i

VisitsBefore(i, k) ==
    Cardinality({jm \in (DOMAIN neighbors_at_patch) \X Slots :
                    /\ FirstVisit(jm[1], jm[2])
                    /\ (jm[1] < i \/ (jm[1] = i /\ jm[2] < k))})

\* C10: each links_at_patch[i][k] is a row of the link table whose endpoints
\* are the two vertices of patch i other than vertex k; ids are handed out
\* from 0 in the order of first visit (patches ascending, slots 0, 1, 2).
C10_OppositeVertex ==
    pc = "done" =>
        \A i \in DOMAIN links_at_patch : \A k \in Slots :
            /\ links_at_patch[i][k] \in DOMAIN nodes_at_link
            /\ LinkPair(links_at_patch[i][k]) = Edge(nodes_at_patch[i], k)
            /\ FirstVisit(i, k) => links_at_patch[i][k] = VisitsBefore(i, k)

C10_Witness ==
    /\ pc = "done"
    /\ n_patches = 3
    /\ \E k \in Slots : ~FirstVisit(2, k) /\ links_at_patch[2][k] < 3
    /\ \E k \in Slots : FirstVisit(2, k) /\ links_at_patch[2][k] = 5

====
